---- MODULE Spec2Model ----
(***************************************************************************)
(* Model of test/invariants/crytictofoundry.py: the trace normalizer       *)
(* outputToSol (five ordered rewrites of the text of example.txt) and the  *)
(* template injector fillFile (one regular-expression substitution on      *)
(* CryticToFoundry.t.sol, written back in place).                          *)
(*                                                                         *)
(* A text is a sequence of characters.  A character is the string of that  *)
(* one character; a character that cannot be written in a string of this   *)
(* module (the backquote, a control character without an escape, any       *)
(* character beyond ASCII) is the string U+ followed by its code point in  *)
(* four to six upper-case hexadecimal digits, U+0060 for the backquote.    *)
(* Each re.sub is modelled as Python performs it: scan from the left, at   *)
(* each position try the pattern (greedy quantifiers, backtracking),       *)
(* replace the leftmost match, resume the scan right after the match.      *)
(***************************************************************************)
EXTENDS Integers, Sequences, FiniteSets

VARIABLES pc, example, data, trail, content, disk, snaps, run, err

vars == <<pc, example, data, trail, content, disk, snaps, run, err>>

(***************************************************************************)
(* Bounds of the model.                                                    *)
(***************************************************************************)
MaxTokens == 3
MaxTplLines == 4
MaxFillTokens == 1
MaxRuns == 2

(***************************************************************************)
(* Character classes of the patterns.                                      *)
(***************************************************************************)
\* the ASCII digits: the class 0-9 of line 12, DIGITS of the template parser
Digits == {"0","1","2","3","4","5","6","7","8","9"}

\* the class \d of line 10, a str pattern: every character of the Unicode
\* category Nd, here by the digit it stands for (entry v + 1 holds the
\* characters of value v); int() reads the same characters
DecimalDigitsByValue ==
  <<
    {
      "0", "U+0660", "U+06F0", "U+07C0", "U+0966", "U+09E6", "U+0A66",
      "U+0AE6", "U+0B66", "U+0BE6", "U+0C66", "U+0CE6", "U+0D66", "U+0DE6",
      "U+0E50", "U+0ED0", "U+0F20", "U+1040", "U+1090", "U+17E0", "U+1810",
      "U+1946", "U+19D0", "U+1A80", "U+1A90", "U+1B50", "U+1BB0", "U+1C40",
      "U+1C50", "U+A620", "U+A8D0", "U+A900", "U+A9D0", "U+A9F0", "U+AA50",
      "U+ABF0", "U+FF10", "U+104A0", "U+10D30", "U+11066", "U+110F0",
      "U+11136", "U+111D0", "U+112F0", "U+11450", "U+114D0", "U+11650",
      "U+116C0", "U+11730", "U+118E0", "U+11950", "U+11C50", "U+11D50",
      "U+11DA0", "U+16A60", "U+16AC0", "U+16B50", "U+1D7CE", "U+1D7D8",
      "U+1D7E2", "U+1D7EC", "U+1D7F6", "U+1E140", "U+1E2F0", "U+1E950",
      "U+1FBF0" },
    {
      "1", "U+0661", "U+06F1", "U+07C1", "U+0967", "U+09E7", "U+0A67",
      "U+0AE7", "U+0B67", "U+0BE7", "U+0C67", "U+0CE7", "U+0D67", "U+0DE7",
      "U+0E51", "U+0ED1", "U+0F21", "U+1041", "U+1091", "U+17E1", "U+1811",
      "U+1947", "U+19D1", "U+1A81", "U+1A91", "U+1B51", "U+1BB1", "U+1C41",
      "U+1C51", "U+A621", "U+A8D1", "U+A901", "U+A9D1", "U+A9F1", "U+AA51",
      "U+ABF1", "U+FF11", "U+104A1", "U+10D31", "U+11067", "U+110F1",
      "U+11137", "U+111D1", "U+112F1", "U+11451", "U+114D1", "U+11651",
      "U+116C1", "U+11731", "U+118E1", "U+11951", "U+11C51", "U+11D51",
      "U+11DA1", "U+16A61", "U+16AC1", "U+16B51", "U+1D7CF", "U+1D7D9",
      "U+1D7E3", "U+1D7ED", "U+1D7F7", "U+1E141", "U+1E2F1", "U+1E951",
      "U+1FBF1" },
    {
      "2", "U+0662", "U+06F2", "U+07C2", "U+0968", "U+09E8", "U+0A68",
      "U+0AE8", "U+0B68", "U+0BE8", "U+0C68", "U+0CE8", "U+0D68", "U+0DE8",
      "U+0E52", "U+0ED2", "U+0F22", "U+1042", "U+1092", "U+17E2", "U+1812",
      "U+1948", "U+19D2", "U+1A82", "U+1A92", "U+1B52", "U+1BB2", "U+1C42",
      "U+1C52", "U+A622", "U+A8D2", "U+A902", "U+A9D2", "U+A9F2", "U+AA52",
      "U+ABF2", "U+FF12", "U+104A2", "U+10D32", "U+11068", "U+110F2",
      "U+11138", "U+111D2", "U+112F2", "U+11452", "U+114D2", "U+11652",
      "U+116C2", "U+11732", "U+118E2", "U+11952", "U+11C52", "U+11D52",
      "U+11DA2", "U+16A62", "U+16AC2", "U+16B52", "U+1D7D0", "U+1D7DA",
      "U+1D7E4", "U+1D7EE", "U+1D7F8", "U+1E142", "U+1E2F2", "U+1E952",
      "U+1FBF2" },
    {
      "3", "U+0663", "U+06F3", "U+07C3", "U+0969", "U+09E9", "U+0A69",
      "U+0AE9", "U+0B69", "U+0BE9", "U+0C69", "U+0CE9", "U+0D69", "U+0DE9",
      "U+0E53", "U+0ED3", "U+0F23", "U+1043", "U+1093", "U+17E3", "U+1813",
      "U+1949", "U+19D3", "U+1A83", "U+1A93", "U+1B53", "U+1BB3", "U+1C43",
      "U+1C53", "U+A623", "U+A8D3", "U+A903", "U+A9D3", "U+A9F3", "U+AA53",
      "U+ABF3", "U+FF13", "U+104A3", "U+10D33", "U+11069", "U+110F3",
      "U+11139", "U+111D3", "U+112F3", "U+11453", "U+114D3", "U+11653",
      "U+116C3", "U+11733", "U+118E3", "U+11953", "U+11C53", "U+11D53",
      "U+11DA3", "U+16A63", "U+16AC3", "U+16B53", "U+1D7D1", "U+1D7DB",
      "U+1D7E5", "U+1D7EF", "U+1D7F9", "U+1E143", "U+1E2F3", "U+1E953",
      "U+1FBF3" },
    {
      "4", "U+0664", "U+06F4", "U+07C4", "U+096A", "U+09EA", "U+0A6A",
      "U+0AEA", "U+0B6A", "U+0BEA", "U+0C6A", "U+0CEA", "U+0D6A", "U+0DEA",
      "U+0E54", "U+0ED4", "U+0F24", "U+1044", "U+1094", "U+17E4", "U+1814",
      "U+194A", "U+19D4", "U+1A84", "U+1A94", "U+1B54", "U+1BB4", "U+1C44",
      "U+1C54", "U+A624", "U+A8D4", "U+A904", "U+A9D4", "U+A9F4", "U+AA54",
      "U+ABF4", "U+FF14", "U+104A4", "U+10D34", "U+1106A", "U+110F4",
      "U+1113A", "U+111D4", "U+112F4", "U+11454", "U+114D4", "U+11654",
      "U+116C4", "U+11734", "U+118E4", "U+11954", "U+11C54", "U+11D54",
      "U+11DA4", "U+16A64", "U+16AC4", "U+16B54", "U+1D7D2", "U+1D7DC",
      "U+1D7E6", "U+1D7F0", "U+1D7FA", "U+1E144", "U+1E2F4", "U+1E954",
      "U+1FBF4" },
    {
      "5", "U+0665", "U+06F5", "U+07C5", "U+096B", "U+09EB", "U+0A6B",
      "U+0AEB", "U+0B6B", "U+0BEB", "U+0C6B", "U+0CEB", "U+0D6B", "U+0DEB",
      "U+0E55", "U+0ED5", "U+0F25", "U+1045", "U+1095", "U+17E5", "U+1815",
      "U+194B", "U+19D5", "U+1A85", "U+1A95", "U+1B55", "U+1BB5", "U+1C45",
      "U+1C55", "U+A625", "U+A8D5", "U+A905", "U+A9D5", "U+A9F5", "U+AA55",
      "U+ABF5", "U+FF15", "U+104A5", "U+10D35", "U+1106B", "U+110F5",
      "U+1113B", "U+111D5", "U+112F5", "U+11455", "U+114D5", "U+11655",
      "U+116C5", "U+11735", "U+118E5", "U+11955", "U+11C55", "U+11D55",
      "U+11DA5", "U+16A65", "U+16AC5", "U+16B55", "U+1D7D3", "U+1D7DD",
      "U+1D7E7", "U+1D7F1", "U+1D7FB", "U+1E145", "U+1E2F5", "U+1E955",
      "U+1FBF5" },
    {
      "6", "U+0666", "U+06F6", "U+07C6", "U+096C", "U+09EC", "U+0A6C",
      "U+0AEC", "U+0B6C", "U+0BEC", "U+0C6C", "U+0CEC", "U+0D6C", "U+0DEC",
      "U+0E56", "U+0ED6", "U+0F26", "U+1046", "U+1096", "U+17E6", "U+1816",
      "U+194C", "U+19D6", "U+1A86", "U+1A96", "U+1B56", "U+1BB6", "U+1C46",
      "U+1C56", "U+A626", "U+A8D6", "U+A906", "U+A9D6", "U+A9F6", "U+AA56",
      "U+ABF6", "U+FF16", "U+104A6", "U+10D36", "U+1106C", "U+110F6",
      "U+1113C", "U+111D6", "U+112F6", "U+11456", "U+114D6", "U+11656",
      "U+116C6", "U+11736", "U+118E6", "U+11956", "U+11C56", "U+11D56",
      "U+11DA6", "U+16A66", "U+16AC6", "U+16B56", "U+1D7D4", "U+1D7DE",
      "U+1D7E8", "U+1D7F2", "U+1D7FC", "U+1E146", "U+1E2F6", "U+1E956",
      "U+1FBF6" },
    {
      "7", "U+0667", "U+06F7", "U+07C7", "U+096D", "U+09ED", "U+0A6D",
      "U+0AED", "U+0B6D", "U+0BED", "U+0C6D", "U+0CED", "U+0D6D", "U+0DED",
      "U+0E57", "U+0ED7", "U+0F27", "U+1047", "U+1097", "U+17E7", "U+1817",
      "U+194D", "U+19D7", "U+1A87", "U+1A97", "U+1B57", "U+1BB7", "U+1C47",
      "U+1C57", "U+A627", "U+A8D7", "U+A907", "U+A9D7", "U+A9F7", "U+AA57",
      "U+ABF7", "U+FF17", "U+104A7", "U+10D37", "U+1106D", "U+110F7",
      "U+1113D", "U+111D7", "U+112F7", "U+11457", "U+114D7", "U+11657",
      "U+116C7", "U+11737", "U+118E7", "U+11957", "U+11C57", "U+11D57",
      "U+11DA7", "U+16A67", "U+16AC7", "U+16B57", "U+1D7D5", "U+1D7DF",
      "U+1D7E9", "U+1D7F3", "U+1D7FD", "U+1E147", "U+1E2F7", "U+1E957",
      "U+1FBF7" },
    {
      "8", "U+0668", "U+06F8", "U+07C8", "U+096E", "U+09EE", "U+0A6E",
      "U+0AEE", "U+0B6E", "U+0BEE", "U+0C6E", "U+0CEE", "U+0D6E", "U+0DEE",
      "U+0E58", "U+0ED8", "U+0F28", "U+1048", "U+1098", "U+17E8", "U+1818",
      "U+194E", "U+19D8", "U+1A88", "U+1A98", "U+1B58", "U+1BB8", "U+1C48",
      "U+1C58", "U+A628", "U+A8D8", "U+A908", "U+A9D8", "U+A9F8", "U+AA58",
      "U+ABF8", "U+FF18", "U+104A8", "U+10D38", "U+1106E", "U+110F8",
      "U+1113E", "U+111D8", "U+112F8", "U+11458", "U+114D8", "U+11658",
      "U+116C8", "U+11738", "U+118E8", "U+11958", "U+11C58", "U+11D58",
      "U+11DA8", "U+16A68", "U+16AC8", "U+16B58", "U+1D7D6", "U+1D7E0",
      "U+1D7EA", "U+1D7F4", "U+1D7FE", "U+1E148", "U+1E2F8", "U+1E958",
      "U+1FBF8" },
    {
      "9", "U+0669", "U+06F9", "U+07C9", "U+096F", "U+09EF", "U+0A6F",
      "U+0AEF", "U+0B6F", "U+0BEF", "U+0C6F", "U+0CEF", "U+0D6F", "U+0DEF",
      "U+0E59", "U+0ED9", "U+0F29", "U+1049", "U+1099", "U+17E9", "U+1819",
      "U+194F", "U+19D9", "U+1A89", "U+1A99", "U+1B59", "U+1BB9", "U+1C49",
      "U+1C59", "U+A629", "U+A8D9", "U+A909", "U+A9D9", "U+A9F9", "U+AA59",
      "U+ABF9", "U+FF19", "U+104A9", "U+10D39", "U+1106F", "U+110F9",
      "U+1113F", "U+111D9", "U+112F9", "U+11459", "U+114D9", "U+11659",
      "U+116C9", "U+11739", "U+118E9", "U+11959", "U+11C59", "U+11D59",
      "U+11DA9", "U+16A69", "U+16AC9", "U+16B59", "U+1D7D7", "U+1D7E1",
      "U+1D7EB", "U+1D7F5", "U+1D7FF", "U+1E149", "U+1E2F9", "U+1E959",
      "U+1FBF9" } >>

DecimalDigits == UNION { DecimalDigitsByValue[v] : v \in 1..10 }

HexDigits == Digits \cup {"a","b","c","d","e","f","A","B","C","D","E","F"}

Lower == {"a","b","c","d","e","f","g","h","i","j","k","l","m",
          "n","o","p","q","r","s","t","u","v","w","x","y","z"}

Upper == {"A","B","C","D","E","F","G","H","I","J","K","L","M",
          "N","O","P","Q","R","S","T","U","V","W","X","Y","Z"}

\* the class [a-zA-z] of the reflow pattern: the range A-z also holds the
\* six characters between Z and a, the backquote U+0060 among them
IdentChars == Lower \cup Upper \cup {"[","\\","]","^","_","U+0060"}

AsciiLetters == Lower \cup Upper

(***************************************************************************)
(* Literals of the source.                                                 *)
(***************************************************************************)
Marker == <<"*","w","a","i","t","*"," ">>

DelayPrefix == <<"T","i","m","e"," ","d","e","l","a","y",":"," ">>

\* a reflow that indents the annotation by two spaces instead of four
ReflowBreakTwoSpaces == <<"\n"," "," ">>

ReflowBreak == <<"\n"," "," "," "," ">>

WarpOpen == <<"v","m",".","w","a","r","p","(">>

AddressOpen == <<"a","d","d","r","e","s","s","(">>

HexPrefix == <<"0","x">>

Anchor == <<"f","u","n","c","t","i","o","n"," ","t","e","s","t","(",")"," ",
            "p","u","b","l","i","c"," ","{">>

CloseBrace == <<" "," ","}">>

(***************************************************************************)
(* Helpers on texts.                                                       *)
(***************************************************************************)
\* the literal p occurs in s at index i
HasAt(s, i, p) ==
    /\ i >= 1
    /\ i + Len(p) - 1 <= Len(s)
    /\ \A k \in 1..Len(p) : s[i + k - 1] = p[k]

\* s[i..j], empty when j < i
Sub(s, i, j) == IF j < i THEN <<>> ELSE SubSeq(s, i, j)

\* first index >= i whose character is outside class, Len(s)+1 if none:
\* the end of the maximal run a greedy class+ consumes from i
RunEnd(s, i, class) ==
    IF i > Len(s) THEN i
    ELSE CHOOSE k \in i..(Len(s) + 1) :
             /\ k = Len(s) + 1 \/ s[k] \notin class
             /\ \A j \in i..(k - 1) : s[j] \in class

\* index of the first newline at or after i, Len(s)+1 if none: where .* stops
LineEnd(s, i) ==
    IF i > Len(s) THEN i
    ELSE CHOOSE k \in i..(Len(s) + 1) :
             /\ k = Len(s) + 1 \/ s[k] = "\n"
             /\ \A j \in i..(k - 1) : s[j] # "\n"

SetMax(S) == CHOOSE x \in S : \A y \in S : y <= x

SetMin(S) == CHOOSE x \in S : \A y \in S : x <= y

(***************************************************************************)
(* open(..., 'r').read(): text mode with universal newlines turns CR LF   *)
(* and a lone CR into LF.  open(..., 'w').write() turns LF into            *)
(* os.linesep, which is LF on the POSIX hosts the script runs on.          *)
(***************************************************************************)
RECURSIVE ReadFrom(_, _)
ReadFrom(bytes, i) ==
    LET crs == { k \in i..Len(bytes) : bytes[k] = "\r" }
    IN  IF crs = {} THEN Sub(bytes, i, Len(bytes))
        ELSE LET k == SetMin(crs)
             IN  Sub(bytes, i, k - 1) \o <<"\n">>
                   \o ReadFrom(bytes, IF k < Len(bytes) /\ bytes[k + 1] = "\n"
                                      THEN k + 2 ELSE k + 1)

ReadText(bytes) == ReadFrom(bytes, 1)

WriteText(text) == text

(***************************************************************************)
(* Rule 1, line 8: data.replace(marker, empty)                             *)
(* str.replace removes the non-overlapping occurrences found in one scan   *)
(* from the left; the result is not scanned again.                         *)
(***************************************************************************)
RECURSIVE ReplaceFrom(_, _, _)
ReplaceFrom(s, i, old) ==
    LET found == { k \in i..Len(s) : HasAt(s, k, old) }
    IN  IF found = {} THEN Sub(s, i, Len(s))
        ELSE Sub(s, i, SetMin(found) - 1)
               \o ReplaceFrom(s, SetMin(found) + Len(old), old)

StripNoiseText(s) == ReplaceFrom(s, 1, Marker)

(***************************************************************************)
(* Rule 2, line 9:                                                         *)
(*   pattern      ([a-zA-z]+\(.*\)) (Time delay: .*\n)                     *)
(*   replacement  \1\n    \2                                               *)
(* A match at i: a maximal run of [a-zA-z] (a shorter run is followed by a *)
(* class character, never by the open parenthesis), the open parenthesis,  *)
(* then the greedy .* gives back characters until a close parenthesis      *)
(* followed by one space and the delay prefix is found, so the LAST such   *)
(* parenthesis of the line is taken; the second .* runs to the end of the  *)
(* line, which must be a newline.                                          *)
(***************************************************************************)
ReflowParen(s, i) == RunEnd(s, i, IdentChars)

ReflowEol(s, i) == LineEnd(s, ReflowParen(s, i) + 1)

ReflowCloses(s, i) ==
    { j \in (ReflowParen(s, i) + 1)..(ReflowEol(s, i) - 1) :
        /\ s[j] = ")"
        /\ HasAt(s, j + 1, <<" ">> \o DelayPrefix) }

ReflowMatches(s, i) ==
    /\ ReflowParen(s, i) > i
    /\ ReflowParen(s, i) <= Len(s)
    /\ s[ReflowParen(s, i)] = "("
    /\ ReflowEol(s, i) <= Len(s)
    /\ ReflowCloses(s, i) # {}

\* the scan of re.sub from index i: the text up to the leftmost match is
\* kept, the match is replaced, the scan resumes after the match
RECURSIVE ReflowFrom(_, _)
ReflowFrom(s, i) ==
    LET found == { k \in i..Len(s) : ReflowMatches(s, k) }
    IN  IF found = {} THEN Sub(s, i, Len(s))
        ELSE LET m == SetMin(found)
                 j == SetMax(ReflowCloses(s, m))
                 e == ReflowEol(s, m)
             IN  Sub(s, i, j) \o ReflowBreak \o Sub(s, j + 2, e)
                   \o ReflowFrom(s, e + 1)

ReflowText(s) == ReflowFrom(s, 1)

(***************************************************************************)
(* Rule 3, line 10:                                                        *)
(*   pattern      Time delay: (\d+) .*\n                                   *)
(*   replacement  vm.warp(\1)\n                                            *)
(* \d+ takes the maximal run of decimal digits, ASCII or not (a shorter    *)
(* run is followed by a digit, never by the space), then one space, then   *)
(* the rest of the line and its newline.                                   *)
(***************************************************************************)
DelayDigitsEnd(s, i) == RunEnd(s, i + Len(DelayPrefix), DecimalDigits)

DelayMatches(s, i) ==
    /\ HasAt(s, i, DelayPrefix)
    /\ DelayDigitsEnd(s, i) > i + Len(DelayPrefix)
    /\ DelayDigitsEnd(s, i) <= Len(s)
    /\ s[DelayDigitsEnd(s, i)] = " "
    /\ LineEnd(s, DelayDigitsEnd(s, i) + 1) <= Len(s)

RECURSIVE DelayFrom(_, _)
DelayFrom(s, i) ==
    LET found == { k \in i..Len(s) : DelayMatches(s, k) }
    IN  IF found = {} THEN Sub(s, i, Len(s))
        ELSE LET m == SetMin(found)
                 d == DelayDigitsEnd(s, m)
             IN  Sub(s, i, m - 1)
                   \o WarpOpen \o Sub(s, m + Len(DelayPrefix), d - 1) \o <<")", "\n">>
                   \o DelayFrom(s, LineEnd(s, d + 1) + 1)

DelayText(s) == DelayFrom(s, 1)

(***************************************************************************)
(* Rule 4, line 11: pattern \) , replacement );                            *)
(* The pattern is the single close parenthesis: every occurrence matches,  *)
(* wherever it stands on its line.                                         *)
(***************************************************************************)
RECURSIVE TerminateFrom(_, _)
TerminateFrom(s, i) ==
    LET found == { k \in i..Len(s) : s[k] = ")" }
    IN  IF found = {} THEN Sub(s, i, Len(s))
        ELSE Sub(s, i, SetMin(found) - 1) \o <<")", ";">>
               \o TerminateFrom(s, SetMin(found) + 1)

TerminateText(s) == TerminateFrom(s, 1)

(***************************************************************************)
(* Rule 5, line 12:                                                        *)
(*   pattern      0x([a-fA-F0-9]+),                                        *)
(*   replacement  address(0x\1),                                           *)
(***************************************************************************)
HexEnd(s, i) == RunEnd(s, i + Len(HexPrefix), HexDigits)

\* a pattern whose digit class forgets the upper-case letters A-F
AddressMatchesLowerOnly(s, i) ==
    LET h == RunEnd(s, i + Len(HexPrefix),
                    HexDigits \ {"A","B","C","D","E","F"})
    IN  /\ HasAt(s, i, HexPrefix)
        /\ h > i + Len(HexPrefix)
        /\ h <= Len(s)
        /\ s[h] = ","

AddressMatches(s, i) ==
    /\ HasAt(s, i, HexPrefix)
    /\ HexEnd(s, i) > i + Len(HexPrefix)
    /\ HexEnd(s, i) <= Len(s)
    /\ s[HexEnd(s, i)] = ","

RECURSIVE AddressFrom(_, _)
AddressFrom(s, i) ==
    LET found == { k \in i..Len(s) : AddressMatches(s, k) }
    IN  IF found = {} THEN Sub(s, i, Len(s))
        ELSE LET m == SetMin(found)
                 h == HexEnd(s, m)
             IN  Sub(s, i, m - 1)
                   \o AddressOpen \o Sub(s, m, h - 1) \o <<")", ",">>
                   \o AddressFrom(s, h + 1)

AddressText(s) == AddressFrom(s, 1)

\* outputToSol as a function of the bytes of example.txt
outputToSol(bytes) ==
    AddressText(TerminateText(DelayText(ReflowText(StripNoiseText(ReadText(bytes))))))

(***************************************************************************)
(* The replacement of fillFile, line 21, is the string                     *)
(*   \1\n  followed by content followed by two spaces and a closing brace  *)
(* and re.sub parses all of it as a replacement template BEFORE it looks   *)
(* for a match: a backslash in content is an escape.  parse_template:      *)
(*   backslash at the end of the template          error                   *)
(*   backslash g < name >                          group int(name)         *)
(*   backslash 0 and up to two more octal digits   the character coded     *)
(*   backslash d d d, three octal digits           the character coded     *)
(*   backslash d d                                 group d d               *)
(*   backslash d                                   group d                 *)
(*   backslash a b f n r t v or backslash          the control character   *)
(*   backslash and another ASCII letter            error                   *)
(*   backslash and anything else                   both characters kept    *)
(* The pattern has groups 1..3 and no named group; group 0 is the whole    *)
(* match.                                                                  *)
(***************************************************************************)
NumGroups == 3

OctDigits == {"0","1","2","3","4","5","6","7"}

\* the value of a decimal digit
DigitVal(c) == (CHOOSE v \in 1..10 : c \in DecimalDigitsByValue[v]) - 1

\* int() of a digit string; the value only matters up to the number of
\* groups, past which the reference is invalid, so it stops growing there
RECURSIVE ToNat(_)
ToNat(ds) ==
    IF ds = <<>> THEN 0
    ELSE LET v == 10 * ToNat(SubSeq(ds, 1, Len(ds) - 1)) + DigitVal(ds[Len(ds)])
         IN  IF v > NumGroups THEN NumGroups + 1 ELSE v

\* int(ds, 8) of at most three octal digits
RECURSIVE OctVal(_)
OctVal(ds) ==
    IF ds = <<>> THEN 0
    ELSE 8 * OctVal(SubSeq(ds, 1, Len(ds) - 1)) + DigitVal(ds[Len(ds)])

\* chr(n) for n in 0..255: entry n + 1 is the character of code n
CodeChar ==
  <<
    "U+0000", "U+0001", "U+0002", "U+0003", "U+0004", "U+0005", "U+0006",
    "U+0007", "U+0008", "\t", "\n", "U+000B", "\f", "\r", "U+000E",
    "U+000F", "U+0010", "U+0011", "U+0012", "U+0013", "U+0014", "U+0015",
    "U+0016", "U+0017", "U+0018", "U+0019", "U+001A", "U+001B", "U+001C",
    "U+001D", "U+001E", "U+001F", " ", "!", "\"", "#", "$", "%", "&", "'",
    "(", ")", "*", "+", ",", "-", ".", "/", "0", "1", "2", "3", "4", "5",
    "6", "7", "8", "9", ":", ";", "<", "=", ">", "?", "@", "A", "B", "C",
    "D", "E", "F", "G", "H", "I", "J", "K", "L", "M", "N", "O", "P", "Q",
    "R", "S", "T", "U", "V", "W", "X", "Y", "Z", "[", "\\", "]", "^", "_",
    "U+0060", "a", "b", "c", "d", "e", "f", "g", "h", "i", "j", "k", "l",
    "m", "n", "o", "p", "q", "r", "s", "t", "u", "v", "w", "x", "y", "z",
    "{", "|", "}", "~", "U+007F", "U+0080", "U+0081", "U+0082", "U+0083",
    "U+0084", "U+0085", "U+0086", "U+0087", "U+0088", "U+0089", "U+008A",
    "U+008B", "U+008C", "U+008D", "U+008E", "U+008F", "U+0090", "U+0091",
    "U+0092", "U+0093", "U+0094", "U+0095", "U+0096", "U+0097", "U+0098",
    "U+0099", "U+009A", "U+009B", "U+009C", "U+009D", "U+009E", "U+009F",
    "U+00A0", "U+00A1", "U+00A2", "U+00A3", "U+00A4", "U+00A5", "U+00A6",
    "U+00A7", "U+00A8", "U+00A9", "U+00AA", "U+00AB", "U+00AC", "U+00AD",
    "U+00AE", "U+00AF", "U+00B0", "U+00B1", "U+00B2", "U+00B3", "U+00B4",
    "U+00B5", "U+00B6", "U+00B7", "U+00B8", "U+00B9", "U+00BA", "U+00BB",
    "U+00BC", "U+00BD", "U+00BE", "U+00BF", "U+00C0", "U+00C1", "U+00C2",
    "U+00C3", "U+00C4", "U+00C5", "U+00C6", "U+00C7", "U+00C8", "U+00C9",
    "U+00CA", "U+00CB", "U+00CC", "U+00CD", "U+00CE", "U+00CF", "U+00D0",
    "U+00D1", "U+00D2", "U+00D3", "U+00D4", "U+00D5", "U+00D6", "U+00D7",
    "U+00D8", "U+00D9", "U+00DA", "U+00DB", "U+00DC", "U+00DD", "U+00DE",
    "U+00DF", "U+00E0", "U+00E1", "U+00E2", "U+00E3", "U+00E4", "U+00E5",
    "U+00E6", "U+00E7", "U+00E8", "U+00E9", "U+00EA", "U+00EB", "U+00EC",
    "U+00ED", "U+00EE", "U+00EF", "U+00F0", "U+00F1", "U+00F2", "U+00F3",
    "U+00F4", "U+00F5", "U+00F6", "U+00F7", "U+00F8", "U+00F9", "U+00FA",
    "U+00FB", "U+00FC", "U+00FD", "U+00FE", "U+00FF" >>

Chr(n) == CodeChar[n + 1]

\* ESCAPES of the parser: the character an escape letter stands for
EscapeChar(c) ==
    CASE c = "a" -> Chr(7) [] c = "b" -> Chr(8) [] c = "f" -> Chr(12)
      [] c = "n" -> Chr(10) [] c = "r" -> Chr(13) [] c = "t" -> Chr(9)
      [] c = "v" -> Chr(11) [] c = "\\" -> Chr(92)

EscapeLetters == {"n", "r", "t", "f", "\\", "a", "b", "v"}

\* the white space int() strips from both ends of its argument
IntSpace ==
    {
      "\t", "\n", "U+000B", "\f", "\r", " ", "U+0085", "U+00A0", "U+1680",
      "U+2000", "U+2001", "U+2002", "U+2003", "U+2004", "U+2005", "U+2006",
      "U+2007", "U+2008", "U+2009", "U+200A", "U+2028", "U+2029", "U+202F",
      "U+205F", "U+3000" }

\* int(name) as the group reference takes it: the number, or -1 where the
\* parser raises (int() raises ValueError, or the number is negative).
\* int() strips white space, takes one sign, then decimal digits with
\* single underscores between them.  A name that is an identifier is looked
\* up among the named groups, of which the pattern has none: that raises
\* too, and no identifier is a number.  This is the parser of Python 3.11;
\* from 3.12 on a name that is not all ASCII digits raises instead.
GroupNumber(name) ==
    LET a == RunEnd(name, 1, IntSpace)
        inner == { k \in a..Len(name) : name[k] \notin IntSpace }
        core == IF inner = {} THEN <<>> ELSE Sub(name, a, SetMax(inner))
        signed == core # <<>> /\ core[1] \in {"+", "-"}
        body == IF signed THEN Tail(core) ELSE core
        wellFormed ==
            /\ body # <<>>
            /\ \A k \in 1..Len(body) : body[k] \in DecimalDigits \cup {"_"}
            /\ body[1] # "_"
            /\ body[Len(body)] # "_"
            /\ \A k \in 1..(Len(body) - 1) : ~(body[k] = "_" /\ body[k + 1] = "_")
        n == ToNat(SelectSeq(body, LAMBDA c : c # "_"))
    IN  IF ~wellFormed THEN -1
        ELSE IF signed /\ core[1] = "-" /\ n > 0 THEN -1
        ELSE n

\* getuntil: the index of the > that closes the group name opened at i + 2
\* (t[i] is the backslash of backslash g <), Len(t) + 1 when there is none
GroupNameEnd(t, i) ==
    LET closes == { k \in (i + 3)..Len(t) : t[k] = ">" }
    IN  IF closes = {} THEN Len(t) + 1 ELSE SetMin(closes)

\* the escape at index i of the template (t[i] is a backslash): kind is lit
\* (chars are appended), grp (group g is appended) or bad (an error is
\* raised), and next is the index after the escape
TemplateItem(t, i) ==
    IF i = Len(t) THEN [kind |-> "bad", chars |-> <<>>, g |-> 0, next |-> i + 1]
    ELSE LET c == t[i + 1]
             isDigitAt(k) == k <= Len(t) /\ t[k] \in Digits
             isOctAt(k) == k <= Len(t) /\ t[k] \in OctDigits
         IN
         IF c = "g"
         THEN LET e == GroupNameEnd(t, i)
                  name == Sub(t, i + 3, e - 1)
              IN  IF /\ i + 2 <= Len(t) /\ t[i + 2] = "<"
                     /\ e <= Len(t)
                     /\ name # <<>>
                     /\ GroupNumber(name) >= 0
                     /\ GroupNumber(name) <= NumGroups
                  THEN [kind |-> "grp", chars |-> <<>>, g |-> GroupNumber(name),
                        next |-> e + 1]
                  ELSE [kind |-> "bad", chars |-> <<>>, g |-> 0, next |-> i + 2]
         ELSE IF c = "0"
         THEN LET n == IF isOctAt(i + 2)
                       THEN (IF isOctAt(i + 3) THEN i + 4 ELSE i + 3)
                       ELSE i + 2
              IN  [kind |-> "lit", chars |-> <<Chr(OctVal(Sub(t, i + 1, n - 1)))>>,
                   g |-> 0, next |-> n]
         ELSE IF c \in Digits
         THEN IF isDigitAt(i + 2)
              THEN IF c \in OctDigits /\ isOctAt(i + 2) /\ isOctAt(i + 3)
                   THEN IF OctVal(Sub(t, i + 1, i + 3)) <= 255
                        THEN [kind |-> "lit",
                              chars |-> <<Chr(OctVal(Sub(t, i + 1, i + 3)))>>,
                              g |-> 0, next |-> i + 4]
                        ELSE [kind |-> "bad", chars |-> <<>>, g |-> 0, next |-> i + 4]
                   ELSE \* a two-digit group number is at least 10
                        [kind |-> "bad", chars |-> <<>>, g |-> 0, next |-> i + 3]
              ELSE IF DigitVal(c) <= NumGroups
                   THEN [kind |-> "grp", chars |-> <<>>, g |-> DigitVal(c), next |-> i + 2]
                   ELSE [kind |-> "bad", chars |-> <<>>, g |-> 0, next |-> i + 2]
         ELSE IF c \in EscapeLetters
         THEN [kind |-> "lit", chars |-> <<EscapeChar(c)>>, g |-> 0, next |-> i + 2]
         ELSE IF c \in AsciiLetters
         THEN [kind |-> "bad", chars |-> <<>>, g |-> 0, next |-> i + 2]
         ELSE [kind |-> "lit", chars |-> <<"\\", c>>, g |-> 0, next |-> i + 2]

\* the backslashes of the template from index i on
Escapes(t, i) == { k \in i..Len(t) : t[k] = "\\" }

\* parse_template raises
RECURSIVE TemplateBadFrom(_, _)
TemplateBadFrom(t, i) ==
    IF Escapes(t, i) = {} THEN FALSE
    ELSE LET it == TemplateItem(t, SetMin(Escapes(t, i)))
         IN  it.kind = "bad" \/ TemplateBadFrom(t, it.next)

\* the text a parsed template stands for, given the groups of a match:
\* groups[0] is the whole match, groups[1..NumGroups] the captures
RECURSIVE ExpandFrom(_, _, _)
ExpandFrom(t, i, groups) ==
    IF Escapes(t, i) = {} THEN Sub(t, i, Len(t))
    ELSE LET k == SetMin(Escapes(t, i))
             it == TemplateItem(t, k)
         IN  Sub(t, i, k - 1)
               \o (IF it.kind = "grp" THEN groups[it.g] ELSE it.chars)
               \o ExpandFrom(t, it.next, groups)

FillTemplate(c) == <<"\\", "1", "\\", "n">> \o c \o CloseBrace

(***************************************************************************)
(* fillFile, line 21:                                                      *)
(*   pattern  (function test\(\) public \{)(.*\n)+(  \})                   *)
(* After the signature every repetition of (.*\n) takes the rest of one    *)
(* line and its newline; the greedy + takes as many lines as it can and    *)
(* gives lines back until two spaces and a closing brace follow: the match *)
(* ends at the LAST line of the text, after the signature, that begins so. *)
(* Group 2 is the last repetition, the line before that closing brace.     *)
(***************************************************************************)
FillBraceLines(s, i) ==
    { p \in (i + Len(Anchor))..Len(s) : s[p] = "\n" /\ HasAt(s, p + 1, CloseBrace) }

FillMatches(s, i) == HasAt(s, i, Anchor) /\ FillBraceLines(s, i) # {}

FillGroup2(s, i, p) ==
    LET nls == { q \in (i + Len(Anchor))..(p - 1) : s[q] = "\n" }
    IN  Sub(s, IF nls = {} THEN i + Len(Anchor) ELSE SetMax(nls) + 1, p)

\* the groups of the match that starts at m and whose last newline is at p
FillGroups(s, m, p) ==
    [ g \in 0..NumGroups |->
        CASE g = 0 -> Sub(s, m, p + Len(CloseBrace))
          [] g = 1 -> Anchor
          [] g = 2 -> FillGroup2(s, m, p)
          [] g = 3 -> CloseBrace ]

RECURSIVE FillFrom(_, _, _)
FillFrom(s, i, t) ==
    LET found == { k \in i..Len(s) : FillMatches(s, k) }
    IN  IF found = {} THEN Sub(s, i, Len(s))
        ELSE LET m == SetMin(found)
                 p == SetMax(FillBraceLines(s, m))
             IN  Sub(s, i, m - 1)
                   \o ExpandFrom(t, 1, FillGroups(s, m, p))
                   \o FillFrom(s, p + Len(CloseBrace) + 1, t)

\* fillFile raises (lines 19-21): nothing is written
fillFileRaises(c) == TemplateBadFrom(FillTemplate(c), 1)

\* the bytes of the template file after fillFile(content), lines 19-24
fillFile(bytes, c) ==
    IF fillFileRaises(c) THEN bytes
    ELSE WriteText(FillFrom(ReadText(bytes), 1, FillTemplate(c)))

(***************************************************************************)
(* Inputs: traces are concatenations of at most MaxTokens fragments of the *)
(* trace dialect, plus the sample trace of the end-to-end scenario.        *)
(***************************************************************************)
TraceTokens ==
    { Marker,
      <<"*","w","a">>,
      <<"i","t","*"," ">>,
      <<"f","(","1",")">>,
      <<"g","(","f","(","1",")",")">>,
      <<"t","(","0","x","A","b",",","0","x","C",")">>,
      <<" ">>,
      <<"\t">>,
      <<"\n">>,
      <<"T","i","m","e"," ","d","e","l","a","y",":"," ","1","2"," ","s","\n">>,
      <<"T","i","m","e"," ","d","e","l","a","y",":"," ","1","2"," ","s">>,
      <<"T","i","m","e"," ","d","e","l","a","y",":"," ","x"," ","s","\n">>,
      \* a delay whose integer is the ARABIC-INDIC DIGIT THREE
      <<"T","i","m","e"," ","d","e","l","a","y",":"," ","U+0663"," ","s","\n">>,
      \* a delay whose description holds a hex literal and a comma
      <<"T","i","m","e"," ","d","e","l","a","y",":"," ","1","2"," ","0","x",
        "A",",","\n">> }

SampleTrace ==
    <<"*","w","a","i","t","*"," ","t","r","a","n","s","f","e","r","(","0","x",
      "1","2","3","4","a","b","c","d",",","1","0","0",")"," ","T","i","m","e",
      " ","d","e","l","a","y",":"," ","3","6","0","0"," ","s","e","c","o","n",
      "d","s","\n">>

RECURSIVE Flatten(_)
Flatten(ts) == IF ts = <<>> THEN <<>> ELSE Head(ts) \o Flatten(Tail(ts))

SeqsUpTo(S, n) == UNION { [1..k -> S] : k \in 0..n }

Traces == { Flatten(ts) : ts \in SeqsUpTo(TraceTokens, MaxTokens) } \cup {SampleTrace}

DefaultTemplate == Anchor \o <<"\n">> \o CloseBrace \o <<"\n">>

(***************************************************************************)
(* The normalizer, one action per statement of outputToSol.                *)
(***************************************************************************)
Init ==
    /\ pc = "start"
    /\ example \in Traces
    /\ data = <<>>
    /\ trail = <<>>
    /\ content = <<>>
    /\ disk = DefaultTemplate
    /\ snaps = <<disk>>
    /\ run = 1
    /\ err = FALSE

Step(from, to, text) ==
    /\ pc = from
    /\ pc' = to
    /\ data' = text
    /\ trail' = Append(trail, text)
    /\ UNCHANGED <<example, content, disk, snaps, run, err>>

\* lines 6-7
ReadExample == Step("start", "read", ReadText(example))

\* line 8
StripNoise == Step("read", "stripped", StripNoiseText(data))

\* line 9
Reflow == Step("stripped", "reflowed", ReflowText(data))

\* line 10
DelayRewrite == Step("reflowed", "delayed", DelayText(data))

\* line 11
Terminate == Step("delayed", "terminated", TerminateText(data))

\* line 12
AddressRewrite == Step("terminated", "addressed", AddressText(data))

\* lines 13 and 27
Return ==
    /\ pc = "addressed"
    /\ pc' = "returned"
    /\ content' = data
    /\ UNCHANGED <<example, data, trail, disk, snaps, run, err>>

Next ==
    \/ ReadExample
    \/ StripNoise
    \/ Reflow
    \/ DelayRewrite
    \/ Terminate
    \/ AddressRewrite
    \/ Return

Spec == Init /\ [][Next]_vars

(***************************************************************************)
(* The whole script, lines 27-28, run up to MaxRuns times on the same      *)
(* example.txt; outputToSol is one step here.                              *)
(***************************************************************************)
FillTraceTokens ==
    { <<"f","(","1",")","\n">>,
      <<"f","(","1",")">>,
      <<"T","i","m","e"," ","d","e","l","a","y",":"," ","1","2"," ","s","\n">>,
      <<"h","(","\"","\\","2","\"",")","\n">>,
      <<"h","(","\"","\\","q","\"",")","\n">>,
      <<"h","(","\"","\\","g","<","0",">","\"",")","\n">>,
      <<"h","(","\"","\\","g","<","+","1",">","\"",")","\n">>,
      <<"h","(","\"","\\","0","1","2","\"",")","\n">> }

FillTraces == { Flatten(ts) : ts \in SeqsUpTo(FillTraceTokens, MaxFillTokens) }

TemplateLines ==
    { <<"x","\n">>,
      <<"y","\r","\n">>,
      Anchor \o <<"\n">>,
      CloseBrace \o <<"\n">> }

Templates == { Flatten(ls) : ls \in SeqsUpTo(TemplateLines, MaxTplLines) }

InitFill ==
    /\ pc = "start"
    /\ example \in FillTraces
    /\ data = <<>>
    /\ trail = <<>>
    /\ content = <<>>
    /\ disk \in Templates
    /\ snaps = <<disk>>
    /\ run = 1
    /\ err = FALSE

\* line 27: content = outputToSol()
RunOutputToSol ==
    /\ pc = "start"
    /\ pc' = "returned"
    /\ data' = outputToSol(example)
    /\ trail' = <<data'>>
    /\ content' = data'
    /\ UNCHANGED <<example, disk, snaps, run, err>>

\* line 28: fillFile(content, "ig")
FillFile ==
    /\ pc = "returned"
    /\ IF fillFileRaises(content)
       THEN /\ pc' = "aborted"
            /\ err' = TRUE
            /\ disk' = disk
       ELSE /\ pc' = "filled"
            /\ err' = FALSE
            /\ disk' = fillFile(disk, content)
    /\ snaps' = Append(snaps, disk')
    /\ UNCHANGED <<example, data, trail, content, run>>

\* the script is started again
Rerun ==
    /\ pc \in {"filled", "aborted"}
    /\ run < MaxRuns
    /\ pc' = "start"
    /\ run' = run + 1
    /\ data' = <<>>
    /\ trail' = <<>>
    /\ content' = <<>>
    /\ err' = FALSE
    /\ UNCHANGED <<example, disk, snaps>>

NextFill ==
    \/ RunOutputToSol
    \/ FillFile
    \/ Rerun

SpecFill == InitFill /\ [][NextFill]_vars

(***************************************************************************)
(* Notions the properties are stated in.                                   *)
(***************************************************************************)
TypeOK == pc \in {"start", "read", "stripped", "reflowed", "delayed",
                  "terminated", "addressed", "returned", "filled", "aborted"}

Normalized == pc \in {"addressed", "returned"}

\* the lines of a text, without their newlines
RECURSIVE LinesFrom(_, _)
LinesFrom(s, i) ==
    IF i > Len(s) THEN <<>>
    ELSE <<Sub(s, i, LineEnd(s, i) - 1)>> \o LinesFrom(s, LineEnd(s, i) + 1)

LinesOf(s) == LinesFrom(s, 1)

EndsWith(s, p) == Len(s) >= Len(p) /\ HasAt(s, Len(s) - Len(p) + 1, p)

Count(s, c) == Cardinality({ i \in 1..Len(s) : s[i] = c })

AllIn(s, class) == \A k \in 1..Len(s) : s[k] \in class

CountIn(s, i, j, c) == Cardinality({ k \in i..j : s[k] = c })

\* index of the parenthesis closing the one opened at i, 0 if it is never closed
MatchClose(s, i) ==
    LET closes == { j \in (i + 1)..Len(s) :
                      s[j] = ")" /\ CountIn(s, i, j, "(") = CountIn(s, i, j, ")") }
    IN  IF closes = {} THEN 0 ELSE SetMin(closes)

\* the nesting depth at which the character at i stands
Depth(s, i) == CountIn(s, 1, i - 1, "(") - CountIn(s, 1, i - 1, ")")

\* a call record identifier(args) that fills the whole of l
IsCall(l) ==
    LET k == RunEnd(l, 1, AsciiLetters)
    IN  /\ k > 1
        /\ k <= Len(l)
        /\ l[k] = "("
        /\ MatchClose(l, k) = Len(l)
        /\ Count(l, " ") = 0

\* a delay annotation  Time delay: <integer> <description>  that fills l
IsDelay(l) ==
    LET d == RunEnd(l, Len(DelayPrefix) + 1, DecimalDigits)
    IN  /\ HasAt(l, 1, DelayPrefix)
        /\ d > Len(DelayPrefix) + 1
        /\ d <= Len(l)
        /\ l[d] = " "
        /\ Count(l, "(") = 0
        /\ Count(l, ")") = 0
        /\ \A i \in 2..Len(l) : ~HasAt(l, i, DelayPrefix)

Unmarked(l) == IF HasAt(l, 1, Marker) THEN Sub(l, Len(Marker) + 1, Len(l)) ELSE l

\* a line of the trace dialect: an optional marker, then a call, a delay
\* annotation, or a call, one space and a delay annotation
DialectLine(l) ==
    LET b == Unmarked(l)
    IN  \/ b = <<>>
        \/ IsCall(b)
        \/ IsDelay(b)
        \/ \E k \in 1..Len(b) :
             /\ IsCall(Sub(b, 1, k))
             /\ k < Len(b)
             /\ b[k + 1] = " "
             /\ IsDelay(Sub(b, k + 2, Len(b)))

Dialect(s) == \A k \in 1..Len(LinesOf(s)) : DialectLine(LinesOf(s)[k])

\* the calls and delay annotations of a dialect line, in order
LineEvents(l) ==
    LET b == Unmarked(l)
    IN  (IF b # <<>> /\ ~IsDelay(b) THEN <<"call">> ELSE <<>>)
          \o (IF \E i \in 1..Len(b) : IsDelay(Sub(b, i, Len(b))) THEN <<"delay">> ELSE <<>>)

RECURSIVE EventsOf(_)
EventsOf(ls) == IF ls = <<>> THEN <<>> ELSE LineEvents(Head(ls)) \o EventsOf(Tail(ls))

InputOrder(s) == EventsOf(LinesOf(s))

\* the statements of a generated text, in order: a clock-advance statement
\* vm.warp(<digits>); or a call statement identifier(...); at nesting depth 0
IsWarpAt(s, i) ==
    LET d == RunEnd(s, i + 1, DecimalDigits)
    IN  /\ HasAt(s, i - Len(WarpOpen) + 1, WarpOpen)
        /\ d > i + 1
        /\ HasAt(s, d, <<")", ";">>)

IsCallStatementAt(s, i) ==
    /\ i > 1
    /\ s[i - 1] \in AsciiLetters
    /\ MatchClose(s, i) # 0
    /\ HasAt(s, MatchClose(s, i) + 1, <<";">>)

RECURSIVE StatementsFrom(_, _)
StatementsFrom(s, i) ==
    LET opens == { k \in i..Len(s) : s[k] = "(" /\ Depth(s, k) = 0 }
    IN  IF opens = {} THEN <<>>
        ELSE LET k == SetMin(opens)
             IN  (IF IsWarpAt(s, k) THEN <<"delay">>
                  ELSE IF IsCallStatementAt(s, k) THEN <<"call">>
                  ELSE <<>>) \o StatementsFrom(s, k + 1)

OutputOrder(s) == StatementsFrom(s, 1)

(***************************************************************************)
(* C1.  Order preservation: a dialect trace with N call lines and M delay  *)
(* annotations, inline or on their own line, the last line possibly        *)
(* without a newline, normalizes to exactly N call statements and M        *)
(* clock-advance statements in the same relative order.                    *)
(***************************************************************************)
C1_OrderPreserved ==
    (pc = "returned" /\ Dialect(example))
        => OutputOrder(content) = InputOrder(example)

(***************************************************************************)
(* C2.  Statement termination: line by line, a line ending in a close      *)
(* parenthesis before rule 4 ends in the terminated parenthesis in the     *)
(* final text, it receives exactly one terminator, and a line not ending   *)
(* in a close parenthesis (its parentheses are inner ones) receives none.  *)
(***************************************************************************)
C2_Termination ==
    Normalized =>
        LET pre == LinesOf(trail[4])
            fin == LinesOf(trail[6])
        IN  /\ Len(fin) = Len(pre)
            /\ \A k \in 1..Len(pre) :
                 /\ EndsWith(pre[k], <<")">>) => EndsWith(fin[k], <<")", ";">>)
                 /\ Count(fin[k], ";") - Count(pre[k], ";")
                      = IF EndsWith(pre[k], <<")">>) THEN 1 ELSE 0

(***************************************************************************)
(* C6.  Delay rewrite: every line of the text given to rule 3 that holds   *)
(* Time delay: <integer> <anything>  becomes the text before the           *)
(* annotation followed by the clock-advance statement carrying the maximal *)
(* digit run; every other line passes through unchanged.                   *)
(***************************************************************************)
DelayFormAt(l, i) ==
    LET d == RunEnd(l, i + Len(DelayPrefix), DecimalDigits)
    IN  /\ HasAt(l, i, DelayPrefix)
        /\ d > i + Len(DelayPrefix)
        /\ d <= Len(l)
        /\ l[d] = " "

DelayLineClaim(l) ==
    LET at == { i \in 1..Len(l) : DelayFormAt(l, i) }
    IN  IF at = {} THEN l
        ELSE LET i == CHOOSE x \in at : \A y \in at : x <= y
             IN  Sub(l, 1, i - 1) \o WarpOpen
                   \o Sub(l, i + Len(DelayPrefix),
                          RunEnd(l, i + Len(DelayPrefix), DecimalDigits) - 1)
                   \o <<")">>

\* C6: line by line, rule 3 turns each delay annotation into its clock-advance
\* statement and changes nothing else
C6_DelayRewrite ==
    pc \in {"delayed", "terminated", "addressed", "returned"} =>
        LET pre == LinesOf(trail[3])
            post == LinesOf(trail[4])
        IN  /\ Len(post) = Len(pre)
            /\ \A k \in 1..Len(pre) : post[k] = DelayLineClaim(pre[k])

(***************************************************************************)
(* C7.  Idempotence of noise stripping: stripping the stripped text again  *)
(* changes nothing.                                                        *)
(***************************************************************************)
C7_StripIdempotent ==
    pc \in {"stripped", "reflowed", "delayed", "terminated", "addressed", "returned"}
        => StripNoiseText(trail[2]) = trail[2]

(***************************************************************************)
(* C9.  Reflow: wherever a call is followed by one or more spaces or tabs  *)
(* and a delay annotation, the whitespace becomes a newline and four       *)
(* spaces; everything else is unchanged by rule 2; the later rules keep    *)
(* the number of lines.                                                    *)
(***************************************************************************)
Blank == {" ", "\t"}

ReflowPointAt(s, j) ==
    LET w == RunEnd(s, j + 1, Blank)
    IN  /\ s[j] = ")"
        /\ w > j + 1
        /\ HasAt(s, w, DelayPrefix)
        /\ \E i \in 2..(j - 1) :
             /\ s[i] = "("
             /\ s[i - 1] \in AsciiLetters
             /\ \A q \in i..j : s[q] # "\n"

RECURSIVE ReflowClaimFrom(_, _)
ReflowClaimFrom(s, i) ==
    LET points == { j \in i..Len(s) : ReflowPointAt(s, j) }
    IN  IF points = {} THEN Sub(s, i, Len(s))
        ELSE Sub(s, i, SetMin(points)) \o ReflowBreak
               \o ReflowClaimFrom(s, RunEnd(s, SetMin(points) + 1, Blank))

\* C9: rule 2 breaks the line at every call followed by blanks and a delay
\* annotation, and the later rules keep the number of lines
C9_Reflow ==
    Normalized =>
        /\ trail[3] = ReflowClaimFrom(trail[2], 1)
        /\ Count(trail[6], "\n") = Count(trail[3], "\n")

(***************************************************************************)
(* C5.  Address literal rewrite: the text leaving rule 5 holds no bare     *)
(* token 0x<hex>, any more; its wrapped tokens address(0x<hex>), are the   *)
(* tokens of the text entering the rule, with the same digits in the same  *)
(* case and order; when the trace is of the dialect, the tokens in         *)
(* argument position (inside the parentheses of a call) of the trace read  *)
(* are the wrapped tokens inside parentheses of the final text; taking the *)
(* wrappers off gives back the text that entered the rule, so a literal    *)
(* not followed by a comma is untouched and no wrapper parenthesis carries *)
(* a terminator.                                                           *)
(***************************************************************************)
HexTokenAt(s, i) ==
    \E h \in (i + 3)..Len(s) :
        /\ HasAt(s, i, HexPrefix)
        /\ AllIn(Sub(s, i + 2, h - 1), HexDigits)
        /\ s[h] = ","

HexTokenDigits(s, i) ==
    LET h == CHOOSE x \in (i + 3)..Len(s) :
                 AllIn(Sub(s, i + 2, x - 1), HexDigits) /\ s[x] = ","
    IN  Sub(s, i + 2, h - 1)

RECURSIVE TokensFrom(_, _)
TokensFrom(s, i) ==
    LET at == { k \in i..Len(s) : HexTokenAt(s, k) }
    IN  IF at = {} THEN <<>>
        ELSE <<HexTokenDigits(s, SetMin(at))>> \o TokensFrom(s, SetMin(at) + 1)

\* the tokens in argument position: those that stand inside parentheses
RECURSIVE ArgTokensFrom(_, _)
ArgTokensFrom(s, i) ==
    LET at == { k \in i..Len(s) : HexTokenAt(s, k) /\ Depth(s, k) >= 1 }
    IN  IF at = {} THEN <<>>
        ELSE <<HexTokenDigits(s, SetMin(at))>> \o ArgTokensFrom(s, SetMin(at) + 1)

\* a wrapped token address(0x<hex>), at i
WrappedAt(s, i) ==
    \E h \in (i + Len(AddressOpen) + 3)..Len(s) :
        /\ HasAt(s, i, AddressOpen \o HexPrefix)
        /\ AllIn(Sub(s, i + Len(AddressOpen) + 2, h - 1), HexDigits)
        /\ HasAt(s, h, <<")", ",">>)

WrappedDigits(s, i) ==
    LET h == CHOOSE x \in (i + Len(AddressOpen) + 3)..Len(s) :
                 /\ AllIn(Sub(s, i + Len(AddressOpen) + 2, x - 1), HexDigits)
                 /\ HasAt(s, x, <<")", ",">>)
    IN  Sub(s, i + Len(AddressOpen) + 2, h - 1)

RECURSIVE WrappedFrom(_, _)
WrappedFrom(s, i) ==
    LET at == { k \in i..Len(s) : WrappedAt(s, k) }
    IN  IF at = {} THEN <<>>
        ELSE <<WrappedDigits(s, SetMin(at))>> \o WrappedFrom(s, SetMin(at) + 1)

\* the wrapped tokens that stand inside parentheses
RECURSIVE ArgWrappedFrom(_, _)
ArgWrappedFrom(s, i) ==
    LET at == { k \in i..Len(s) : WrappedAt(s, k) /\ Depth(s, k) >= 1 }
    IN  IF at = {} THEN <<>>
        ELSE <<WrappedDigits(s, SetMin(at))>> \o ArgWrappedFrom(s, SetMin(at) + 1)

RECURSIVE UnwrapFrom(_, _)
UnwrapFrom(s, i) ==
    LET at == { k \in i..Len(s) : WrappedAt(s, k) }
    IN  IF at = {} THEN Sub(s, i, Len(s))
        ELSE LET k == SetMin(at)
                 ds == WrappedDigits(s, k)
             IN  Sub(s, i, k - 1) \o HexPrefix \o ds \o <<",">>
                   \o UnwrapFrom(s, k + Len(AddressOpen) + Len(HexPrefix) + Len(ds) + 2)

\* a hex literal that is not followed by a comma
BareLiteralAt(s, i) ==
    LET h == RunEnd(s, i + 2, HexDigits)
    IN  HasAt(s, i, HexPrefix) /\ h > i + 2 /\ HasAt(s, h, <<")">>)

\* C5: every token 0x<hex>, is wrapped, digits and case kept; nothing else is
\* touched by rule 5
C5_AddressRewrite ==
    Normalized =>
        /\ TokensFrom(trail[6], 1) = <<>>
        /\ WrappedFrom(trail[6], 1) = TokensFrom(trail[5], 1)
        /\ Dialect(example) =>
             ArgWrappedFrom(trail[6], 1) = ArgTokensFrom(trail[1], 1)
        /\ UnwrapFrom(trail[6], 1) = trail[5]

C5_Witness ==
    /\ pc = "returned"
    /\ Dialect(example)
    /\ TokensFrom(trail[5], 1) = << <<"A", "b">> >>
    /\ \E i \in 1..Len(content) : BareLiteralAt(content, i)
    /\ \E i \in 1..Len(content) : HasAt(content, i, <<")", ";">>)

(***************************************************************************)
(* C8.  End-to-end scenario.  As the specification words it, the sample    *)
(* line normalizes to the call statement and a clock-advance statement     *)
(* spelled advanceClock(3600).                                             *)
(***************************************************************************)
SampleAsSpecified ==
    <<"t","r","a","n","s","f","e","r","(","a","d","d","r","e","s","s","(","0",
      "x","1","2","3","4","a","b","c","d",")",",","1","0","0",")",";","\n",
      " "," "," "," ","a","d","v","a","n","c","e","C","l","o","c","k","(","3",
      "6","0","0",")",";","\n">>

\* C8 as worded: the content returned for the sample trace is the text above
C8_AsSpecified ==
    (pc = "returned" /\ example = SampleTrace) => content = SampleAsSpecified

(***************************************************************************)
(* C8, amended.  The sample line normalizes, rule after rule, to the call  *)
(* statement with the wrapped address and, on a second line indented by    *)
(* four spaces, the terminated clock-advance statement vm.warp(3600).      *)
(***************************************************************************)
SampleStripped ==
    <<"t","r","a","n","s","f","e","r","(","0","x","1","2","3","4","a","b","c",
      "d",",","1","0","0",")"," ","T","i","m","e"," ","d","e","l","a","y",":",
      " ","3","6","0","0"," ","s","e","c","o","n","d","s","\n">>

SampleReflowed ==
    <<"t","r","a","n","s","f","e","r","(","0","x","1","2","3","4","a","b","c",
      "d",",","1","0","0",")","\n"," "," "," "," ","T","i","m","e"," ","d",
      "e","l","a","y",":"," ","3","6","0","0"," ","s","e","c","o","n","d","s",
      "\n">>

SampleDelayed ==
    <<"t","r","a","n","s","f","e","r","(","0","x","1","2","3","4","a","b","c",
      "d",",","1","0","0",")","\n"," "," "," "," ","v","m",".","w","a","r",
      "p","(","3","6","0","0",")","\n">>

SampleTerminated ==
    <<"t","r","a","n","s","f","e","r","(","0","x","1","2","3","4","a","b","c",
      "d",",","1","0","0",")",";","\n"," "," "," "," ","v","m",".","w","a",
      "r","p","(","3","6","0","0",")",";","\n">>

SampleNormalized ==
    <<"t","r","a","n","s","f","e","r","(","a","d","d","r","e","s","s","(","0",
      "x","1","2","3","4","a","b","c","d",")",",","1","0","0",")",";","\n",
      " "," "," "," ","v","m",".","w","a","r","p","(","3","6","0","0",")",";",
      "\n">>

\* C8 amended: the text after each rule, and the content returned, for the
\* sample trace
C8_EndToEnd ==
    (pc = "returned" /\ example = SampleTrace) =>
        /\ trail = <<SampleTrace, SampleStripped, SampleReflowed, SampleDelayed,
                     SampleTerminated, SampleNormalized>>
        /\ content = SampleNormalized
        /\ Len(LinesOf(content)) = 2

C8_Witness ==
    /\ pc = "returned"
    /\ example = SampleTrace
    /\ content # <<>>

(***************************************************************************)
(* Notions of the injector properties, on the bytes of the template file.  *)
(***************************************************************************)
Ended == pc \in {"filled", "aborted"}

AnchorsIn(b) == { i \in 1..Len(b) : HasAt(b, i, Anchor) }

\* newlines after the signature at i that are followed by a line beginning
\* with two spaces and a closing brace
BraceLinesAfter(b, i) ==
    { p \in (i + Len(Anchor))..Len(b) : b[p] = "\n" /\ HasAt(b, p + 1, CloseBrace) }

HasAnchorFunction(b) ==
    AnchorsIn(b) # {} /\ BraceLinesAfter(b, SetMin(AnchorsIn(b))) # {}

\* the content before the anchor function and after its closing brace
BeforeAnchor(b) == Sub(b, 1, SetMin(AnchorsIn(b)) - 1)

AfterAnchor(b) ==
    Sub(b, SetMin(BraceLinesAfter(b, SetMin(AnchorsIn(b)))) + Len(CloseBrace) + 1, Len(b))

(***************************************************************************)
(* C3.  Template preservation: the bytes before the anchor function and    *)
(* the bytes after its closing brace, further functions included, are the  *)
(* same before and after the injection.                                    *)
(***************************************************************************)
C3_TemplatePreserved ==
    (Ended /\ run = 1 /\ HasAnchorFunction(snaps[1])) =>
        /\ Len(disk) >= Len(BeforeAnchor(snaps[1])) + Len(AfterAnchor(snaps[1]))
        /\ HasAt(disk, 1, BeforeAnchor(snaps[1]))
        /\ EndsWith(disk, AfterAnchor(snaps[1]))

(***************************************************************************)
(* C4.  Missing anchor: when the template holds no anchor signature, or    *)
(* no line beginning with two spaces and a closing brace after it, the     *)
(* file written back is the file read, byte for byte, and no error is      *)
(* raised, whatever the content.                                           *)
(***************************************************************************)
C4_MissingAnchorNoOp ==
    (Ended /\ run = 1 /\ ~HasAnchorFunction(snaps[1])) =>
        /\ ~err
        /\ disk = snaps[1]

(***************************************************************************)
(* C10.  Re-injection: a second run with the same content leaves the file  *)
(* as the first run left it.                                               *)
(***************************************************************************)
C10_Reinjection ==
    (Ended /\ run >= 2) => disk = snaps[run]
====
